---- MODULE Spec2Model ----
(***************************************************************************)
(* A model of the 6502 core of NESProject: the register file, the bus, the *)
(* addressing-mode resolvers, the operations, the instruction table, and   *)
(* the four entry points a host drives (reset, irq, nmi, clock).           *)
(*                                                                         *)
(* Every resolver and operation of src/src/olc6502.cpp is an operator on   *)
(* a record s holding the fields of the core and the bus memory; the field *)
(* ret carries the uint8_t a resolver or an operation returns.  Unsigned   *)
(* 8-bit and 16-bit fields are kept in range with % 256 and % 65536.       *)
(***************************************************************************)
EXTENDS Integers, Sequences, FiniteSets, TLC

VARIABLES
    a,            \* uint8_t  accumulator
    x,            \* uint8_t  X register
    y,            \* uint8_t  Y register
    sp,           \* uint8_t  stack pointer
    pc,           \* uint16_t program counter
    status,       \* uint8_t  status register
    addr_abs,     \* uint16_t resolved address
    addr_rel,     \* uint16_t resolved branch offset
    opcode,       \* uint8_t  opcode of the current instruction
    cycles,       \* uint8_t  cycles left in the current instruction
    cycle_count,  \* uint64_t clock ticks so far
    ram,          \* Bus::ram, as the function of its non-zero bytes
    bus,          \* the core's reference to a Bus is live (not expired)
    calls         \* calls the host has made so far

vars == <<a, x, y, sp, pc, status, addr_abs, addr_rel, opcode, cycles,
          cycle_count, ram, bus, calls>>

(***************************************************************************)
(* Bounds of the model.                                                    *)
(***************************************************************************)
\* The host makes at most MaxCalls calls of reset, irq, nmi and clock.
MaxCalls == 4

\* A host that only clocks a program makes at most MaxTicks calls of clock.
MaxTicks == 12

(***************************************************************************)
(* Bit operations on naturals (C++ &, |, ^ and ~ on unsigned operands).    *)
(***************************************************************************)
RECURSIVE BitAnd(_, _)
BitAnd(m, n) ==
    IF m = 0 \/ n = 0 THEN 0
    ELSE (m % 2) * (n % 2) + 2 * BitAnd(m \div 2, n \div 2)

RECURSIVE BitOr(_, _)
BitOr(m, n) ==
    IF m = 0 THEN n
    ELSE IF n = 0 THEN m
    ELSE (IF m % 2 = 1 \/ n % 2 = 1 THEN 1 ELSE 0) + 2 * BitOr(m \div 2, n \div 2)

RECURSIVE BitXor(_, _)
BitXor(m, n) ==
    IF m = 0 THEN n
    ELSE IF n = 0 THEN m
    ELSE ((m + n) % 2) + 2 * BitXor(m \div 2, n \div 2)

\* ~m on an int holding a value below 65536, kept to its low 16 bits: every
\* use masks the result with a byte.
BitNot(m) == 65535 - m

(***************************************************************************)
(* Program constants.                                                      *)
(***************************************************************************)
STACK_OFFSET == 256

\* enum Flag
C == 1
Z == 2
I == 4
D == 8
B == 16
U == 32
V == 64
N == 128

\* std::array<uint8_t, 64 * 1024>::size()
RamSize == 65536

(***************************************************************************)
(* The bus: 64 KiB of bytes.  ram holds the bytes that are not zero, so a  *)
(* memory content has one representation.                                  *)
(***************************************************************************)
Bus_write(m, address, data) ==
    IF address < RamSize
    THEN IF data = 0
         THEN [k \in (DOMAIN m) \ {address} |-> m[k]]
         ELSE [k \in (DOMAIN m) \cup {address} |->
                  IF k = address THEN data ELSE m[k]]
    ELSE m

Bus_read(m, address) ==
    IF address < RamSize
    THEN IF address \in DOMAIN m THEN m[address] ELSE 0
    ELSE 0

(***************************************************************************)
(* The core's bus accessors.  The address and data arguments convert to    *)
(* uint16_t and uint8_t.  With no live Bus write() prints and returns;     *)
(* read() logs and then reaches the end of a function returning uint8_t    *)
(* with no return statement, so the caller gets an undefined byte: the     *)
(* field undef holds the byte the calls of read() made by one entry point  *)
(* return, chosen by the action from UndefinedBytes.                       *)
(***************************************************************************)
UndefinedBytes == {0, 169, 255}

write(s, address, data) ==
    IF s.bus
    THEN [s EXCEPT !.ram = Bus_write(s.ram, address % 65536, data % 256)]
    ELSE s

read(s, address) ==
    IF s.bus
    THEN Bus_read(s.ram, address % 65536)
    ELSE s.undef

(***************************************************************************)
(* The flag register.                                                      *)
(***************************************************************************)
getFlag(s, flag) == IF BitAnd(s.status, flag) > 0 THEN 1 ELSE 0

setFlag(s, flag, value) ==
    IF value
    THEN [s EXCEPT !.status = BitOr(s.status, flag)]
    ELSE [s EXCEPT !.status = BitAnd(s.status, BitNot(flag) % 256)]

\* "return r;" of a resolver or an operation
Return(s, r) == [s EXCEPT !.ret = r]

(***************************************************************************)
(* The instruction table.                                                  *)
(***************************************************************************)
Ins(n, o, m, c) == [name |-> n, operate |-> o, addrmode |-> m, cycles |-> c]

lookup == <<
    Ins("BRK", "BRK", "IMM", 7), Ins("ORA", "ORA", "IZX", 6), Ins("???", "XXX", "IMP", 2), Ins("???", "XXX", "IMP", 8), Ins("???", "NOP", "IMP", 3), Ins("ORA", "ORA", "ZP0", 3), Ins("ASL", "ASL", "ZP0", 5), Ins("???", "XXX", "IMP", 5), Ins("PHP", "PHP", "IMP", 3), Ins("ORA", "ORA", "IMM", 2), Ins("ASL", "ASL", "IMP", 2), Ins("???", "XXX", "IMP", 2), Ins("???", "NOP", "IMP", 4), Ins("ORA", "ORA", "ABS", 4), Ins("ASL", "ASL", "ABS", 6), Ins("???", "XXX", "IMP", 6),
    Ins("BPL", "BPL", "REL", 2), Ins("ORA", "ORA", "IZY", 5), Ins("???", "XXX", "IMP", 2), Ins("???", "XXX", "IMP", 8), Ins("???", "NOP", "IMP", 4), Ins("ORA", "ORA", "ZPX", 4), Ins("ASL", "ASL", "ZPX", 6), Ins("???", "XXX", "IMP", 6), Ins("CLC", "CLC", "IMP", 2), Ins("ORA", "ORA", "ABY", 4), Ins("???", "NOP", "IMP", 2), Ins("???", "XXX", "IMP", 7), Ins("???", "NOP", "IMP", 4), Ins("ORA", "ORA", "ABX", 4), Ins("ASL", "ASL", "ABX", 7), Ins("???", "XXX", "IMP", 7),
    Ins("JSR", "JSR", "ABS", 6), Ins("AND", "AND", "IZX", 6), Ins("???", "XXX", "IMP", 2), Ins("???", "XXX", "IMP", 8), Ins("BIT", "BIT", "ZP0", 3), Ins("AND", "AND", "ZP0", 3), Ins("ROL", "ROL", "ZP0", 5), Ins("???", "XXX", "IMP", 5), Ins("PLP", "PLP", "IMP", 4), Ins("AND", "AND", "IMM", 2), Ins("ROL", "ROL", "IMP", 2), Ins("???", "XXX", "IMP", 2), Ins("BIT", "BIT", "ABS", 4), Ins("AND", "AND", "ABS", 4), Ins("ROL", "ROL", "ABS", 6), Ins("???", "XXX", "IMP", 6),
    Ins("BMI", "BMI", "REL", 2), Ins("AND", "AND", "IZY", 5), Ins("???", "XXX", "IMP", 2), Ins("???", "XXX", "IMP", 8), Ins("???", "NOP", "IMP", 4), Ins("AND", "AND", "ZPX", 4), Ins("ROL", "ROL", "ZPX", 6), Ins("???", "XXX", "IMP", 6), Ins("SEC", "SEC", "IMP", 2), Ins("AND", "AND", "ABY", 4), Ins("???", "NOP", "IMP", 2), Ins("???", "XXX", "IMP", 7), Ins("???", "NOP", "IMP", 4), Ins("AND", "AND", "ABX", 4), Ins("ROL", "ROL", "ABX", 7), Ins("???", "XXX", "IMP", 7),
    Ins("RTI", "RTI", "IMP", 6), Ins("EOR", "EOR", "IZX", 6), Ins("???", "XXX", "IMP", 2), Ins("???", "XXX", "IMP", 8), Ins("???", "NOP", "IMP", 3), Ins("EOR", "EOR", "ZP0", 3), Ins("LSR", "LSR", "ZP0", 5), Ins("???", "XXX", "IMP", 5), Ins("PHA", "PHA", "IMP", 3), Ins("EOR", "EOR", "IMM", 2), Ins("LSR", "LSR", "IMP", 2), Ins("???", "XXX", "IMP", 2), Ins("JMP", "JMP", "ABS", 3), Ins("EOR", "EOR", "ABS", 4), Ins("LSR", "LSR", "ABS", 6), Ins("???", "XXX", "IMP", 6),
    Ins("BVC", "BVC", "REL", 2), Ins("EOR", "EOR", "IZY", 5), Ins("???", "XXX", "IMP", 2), Ins("???", "XXX", "IMP", 8), Ins("???", "NOP", "IMP", 4), Ins("EOR", "EOR", "ZPX", 4), Ins("LSR", "LSR", "ZPX", 6), Ins("???", "XXX", "IMP", 6), Ins("CLI", "CLI", "IMP", 2), Ins("EOR", "EOR", "ABY", 4), Ins("???", "NOP", "IMP", 2), Ins("???", "XXX", "IMP", 7), Ins("???", "NOP", "IMP", 4), Ins("EOR", "EOR", "ABX", 4), Ins("LSR", "LSR", "ABX", 7), Ins("???", "XXX", "IMP", 7),
    Ins("RTS", "RTS", "IMP", 6), Ins("ADC", "ADC", "IZX", 6), Ins("???", "XXX", "IMP", 2), Ins("???", "XXX", "IMP", 8), Ins("???", "NOP", "IMP", 3), Ins("ADC", "ADC", "ZP0", 3), Ins("ROR", "ROR", "ZP0", 5), Ins("???", "XXX", "IMP", 5), Ins("PLA", "PLA", "IMP", 4), Ins("ADC", "ADC", "IMM", 2), Ins("ROR", "ROR", "IMP", 2), Ins("???", "XXX", "IMP", 2), Ins("JMP", "JMP", "IND", 5), Ins("ADC", "ADC", "ABS", 4), Ins("ROR", "ROR", "ABS", 6), Ins("???", "XXX", "IMP", 6),
    Ins("BVS", "BVS", "REL", 2), Ins("ADC", "ADC", "IZY", 5), Ins("???", "XXX", "IMP", 2), Ins("???", "XXX", "IMP", 8), Ins("???", "NOP", "IMP", 4), Ins("ADC", "ADC", "ZPX", 4), Ins("ROR", "ROR", "ZPX", 6), Ins("???", "XXX", "IMP", 6), Ins("SEI", "SEI", "IMP", 2), Ins("ADC", "ADC", "ABY", 4), Ins("???", "NOP", "IMP", 2), Ins("???", "XXX", "IMP", 7), Ins("???", "NOP", "IMP", 4), Ins("ADC", "ADC", "ABX", 4), Ins("ROR", "ROR", "ABX", 7), Ins("???", "XXX", "IMP", 7),
    Ins("???", "NOP", "IMP", 2), Ins("STA", "STA", "IZX", 6), Ins("???", "NOP", "IMP", 2), Ins("???", "XXX", "IMP", 6), Ins("STY", "STY", "ZP0", 3), Ins("STA", "STA", "ZP0", 3), Ins("STX", "STX", "ZP0", 3), Ins("???", "XXX", "IMP", 3), Ins("DEY", "DEY", "IMP", 2), Ins("???", "NOP", "IMP", 2), Ins("TXA", "TXA", "IMP", 2), Ins("???", "XXX", "IMP", 2), Ins("STY", "STY", "ABS", 4), Ins("STA", "STA", "ABS", 4), Ins("STX", "STX", "ABS", 4), Ins("???", "XXX", "IMP", 4),
    Ins("BCC", "BCC", "REL", 2), Ins("STA", "STA", "IZY", 6), Ins("???", "XXX", "IMP", 2), Ins("???", "XXX", "IMP", 6), Ins("STY", "STY", "ZPX", 4), Ins("STA", "STA", "ZPX", 4), Ins("STX", "STX", "ZPY", 4), Ins("???", "XXX", "IMP", 4), Ins("TYA", "TYA", "IMP", 2), Ins("STA", "STA", "ABY", 5), Ins("TXS", "TXS", "IMP", 2), Ins("???", "XXX", "IMP", 5), Ins("???", "NOP", "IMP", 5), Ins("STA", "STA", "ABX", 5), Ins("???", "XXX", "IMP", 5), Ins("???", "XXX", "IMP", 5),
    Ins("LDY", "LDY", "IMM", 2), Ins("LDA", "LDA", "IZX", 6), Ins("LDX", "LDX", "IMM", 2), Ins("???", "XXX", "IMP", 6), Ins("LDY", "LDY", "ZP0", 3), Ins("LDA", "LDA", "ZP0", 3), Ins("LDX", "LDX", "ZP0", 3), Ins("???", "XXX", "IMP", 3), Ins("TAY", "TAY", "IMP", 2), Ins("LDA", "LDA", "IMM", 2), Ins("TAX", "TAX", "IMP", 2), Ins("???", "XXX", "IMP", 2), Ins("LDY", "LDY", "ABS", 4), Ins("LDA", "LDA", "ABS", 4), Ins("LDX", "LDX", "ABS", 4), Ins("???", "XXX", "IMP", 4),
    Ins("BCS", "BCS", "REL", 2), Ins("LDA", "LDA", "IZY", 5), Ins("???", "XXX", "IMP", 2), Ins("???", "XXX", "IMP", 5), Ins("LDY", "LDY", "ZPX", 4), Ins("LDA", "LDA", "ZPX", 4), Ins("LDX", "LDX", "ZPY", 4), Ins("???", "XXX", "IMP", 4), Ins("CLV", "CLV", "IMP", 2), Ins("LDA", "LDA", "ABY", 4), Ins("TSX", "TSX", "IMP", 2), Ins("???", "XXX", "IMP", 4), Ins("LDY", "LDY", "ABX", 4), Ins("LDA", "LDA", "ABX", 4), Ins("LDX", "LDX", "ABY", 4), Ins("???", "XXX", "IMP", 4),
    Ins("CPY", "CPY", "IMM", 2), Ins("CMP", "CMP", "IZX", 6), Ins("???", "NOP", "IMP", 2), Ins("???", "XXX", "IMP", 8), Ins("CPY", "CPY", "ZP0", 3), Ins("CMP", "CMP", "ZP0", 3), Ins("DEC", "DEC", "ZP0", 5), Ins("???", "XXX", "IMP", 5), Ins("INY", "INY", "IMP", 2), Ins("CMP", "CMP", "IMM", 2), Ins("DEX", "DEX", "IMP", 2), Ins("???", "XXX", "IMP", 2), Ins("CPY", "CPY", "ABS", 4), Ins("CMP", "CMP", "ABS", 4), Ins("DEC", "DEC", "ABS", 6), Ins("???", "XXX", "IMP", 6),
    Ins("BNE", "BNE", "REL", 2), Ins("CMP", "CMP", "IZY", 5), Ins("???", "XXX", "IMP", 2), Ins("???", "XXX", "IMP", 8), Ins("???", "NOP", "IMP", 4), Ins("CMP", "CMP", "ZPX", 4), Ins("DEC", "DEC", "ZPX", 6), Ins("???", "XXX", "IMP", 6), Ins("CLD", "CLD", "IMP", 2), Ins("CMP", "CMP", "ABY", 4), Ins("NOP", "NOP", "IMP", 2), Ins("???", "XXX", "IMP", 7), Ins("???", "NOP", "IMP", 4), Ins("CMP", "CMP", "ABX", 4), Ins("DEC", "DEC", "ABX", 7), Ins("???", "XXX", "IMP", 7),
    Ins("CPX", "CPX", "IMM", 2), Ins("SBC", "SBC", "IZX", 6), Ins("???", "NOP", "IMP", 2), Ins("???", "XXX", "IMP", 8), Ins("CPX", "CPX", "ZP0", 3), Ins("SBC", "SBC", "ZP0", 3), Ins("INC", "INC", "ZP0", 5), Ins("???", "XXX", "IMP", 5), Ins("INX", "INX", "IMP", 2), Ins("SBC", "SBC", "IMM", 2), Ins("NOP", "NOP", "IMP", 2), Ins("???", "SBC", "IMP", 2), Ins("CPX", "CPX", "ABS", 4), Ins("SBC", "SBC", "ABS", 4), Ins("INC", "INC", "ABS", 6), Ins("???", "XXX", "IMP", 6),
    Ins("BEQ", "BEQ", "REL", 2), Ins("SBC", "SBC", "IZY", 5), Ins("???", "XXX", "IMP", 2), Ins("???", "XXX", "IMP", 8), Ins("???", "NOP", "IMP", 4), Ins("SBC", "SBC", "ZPX", 4), Ins("INC", "INC", "ZPX", 6), Ins("???", "XXX", "IMP", 6), Ins("SED", "SED", "IMP", 2), Ins("SBC", "SBC", "ABY", 4), Ins("NOP", "NOP", "IMP", 2), Ins("???", "XXX", "IMP", 7), Ins("???", "NOP", "IMP", 4), Ins("SBC", "SBC", "ABX", 4), Ins("INC", "INC", "ABX", 7), Ins("???", "XXX", "IMP", 7)
>>

\* lookup[opcode]: the vector is indexed from 0
Instruction(op) == lookup[op + 1]

(***************************************************************************)
(* reset, irq, nmi.                                                        *)
(***************************************************************************)
\* reset() with the stack pointer of the reference 6502 ($FD), not $FC
reset_sp_FD(s) ==
    LET s1 == [s EXCEPT !.addr_abs = 65532]
        lo == read(s1, s1.addr_abs + 0)
        hi == read(s1, s1.addr_abs + 1)
    IN  [s1 EXCEPT !.pc = BitOr(hi * 256, lo) % 65536,
                   !.a = 0, !.x = 0, !.y = 0,
                   !.sp = 253,
                   !.status = BitOr(0, U),
                   !.addr_abs = 0,
                   !.addr_rel = 0,
                   !.cycles = 8]

reset(s) ==
    LET s1 == [s EXCEPT !.addr_abs = 65532]
        lo == read(s1, s1.addr_abs + 0)
        hi == read(s1, s1.addr_abs + 1)
    IN  [s1 EXCEPT !.pc = BitOr(hi * 256, lo) % 65536,
                   !.a = 0, !.x = 0, !.y = 0,
                   !.sp = 252,
                   !.status = BitOr(0, U),
                   !.addr_abs = 0,
                   !.addr_rel = 0,
                   !.cycles = 8]

\* irq() without the test of the InterruptDisable flag
irq_unmasked(s) ==
    LET s1 == write(s, STACK_OFFSET + s.sp, BitAnd(s.pc \div 256, 255))
        s2 == [s1 EXCEPT !.sp = (s1.sp + 255) % 256]
        s3 == write(s2, STACK_OFFSET + s2.sp, BitAnd(s2.pc, 255))
        s4 == [s3 EXCEPT !.sp = (s3.sp + 255) % 256]
        s5 == setFlag(setFlag(setFlag(s4, B, FALSE), I, TRUE), U, TRUE)
        s6 == write(s5, STACK_OFFSET + s5.sp, s5.status)
        s7 == [s6 EXCEPT !.sp = (s6.sp + 255) % 256, !.addr_abs = 65534]
        lo == read(s7, s7.addr_abs)
        hi == read(s7, s7.addr_abs + 1)
    IN  [s7 EXCEPT !.pc = BitOr(hi * 256, lo) % 65536, !.cycles = 7]

irq(s) ==
    IF getFlag(s, I) = 0
    THEN LET s1 == write(s, STACK_OFFSET + s.sp, BitAnd(s.pc \div 256, 255))
             s2 == [s1 EXCEPT !.sp = (s1.sp + 255) % 256]
             s3 == write(s2, STACK_OFFSET + s2.sp, BitAnd(s2.pc, 255))
             s4 == [s3 EXCEPT !.sp = (s3.sp + 255) % 256]
             s5 == setFlag(setFlag(setFlag(s4, B, FALSE), I, TRUE), U, TRUE)
             s6 == write(s5, STACK_OFFSET + s5.sp, s5.status)
             s7 == [s6 EXCEPT !.sp = (s6.sp + 255) % 256, !.addr_abs = 65534]
             lo == read(s7, s7.addr_abs)
             hi == read(s7, s7.addr_abs + 1)
         IN  [s7 EXCEPT !.pc = BitOr(hi * 256, lo) % 65536, !.cycles = 7]
    ELSE s

\* nmi() stacking the status as it was on entry, before Break is cleared
\* and InterruptDisable and Unused are set
nmi_status_as_found(s) ==
    LET s1 == write(s, STACK_OFFSET + s.sp, BitAnd(s.pc \div 256, 255))
        s2 == [s1 EXCEPT !.sp = (s1.sp + 255) % 256]
        s3 == write(s2, STACK_OFFSET + s2.sp, BitAnd(s2.pc, 255))
        s4 == [s3 EXCEPT !.sp = (s3.sp + 255) % 256]
        s5 == write(s4, STACK_OFFSET + s4.sp, s4.status)
        s6 == setFlag(setFlag(setFlag(s5, B, FALSE), I, TRUE), U, TRUE)
        s7 == [s6 EXCEPT !.sp = (s6.sp + 255) % 256, !.addr_abs = 65530]
        lo == read(s7, s7.addr_abs)
        hi == read(s7, s7.addr_abs + 1)
    IN  [s7 EXCEPT !.pc = BitOr(hi * 256, lo) % 65536, !.cycles = 7]

nmi(s) ==
    LET s1 == write(s, STACK_OFFSET + s.sp, BitAnd(s.pc \div 256, 255))
        s2 == [s1 EXCEPT !.sp = (s1.sp + 255) % 256]
        s3 == write(s2, STACK_OFFSET + s2.sp, BitAnd(s2.pc, 255))
        s4 == [s3 EXCEPT !.sp = (s3.sp + 255) % 256]
        s5 == setFlag(setFlag(setFlag(s4, B, FALSE), I, TRUE), U, TRUE)
        s6 == write(s5, STACK_OFFSET + s5.sp, s5.status)
        s7 == [s6 EXCEPT !.sp = (s6.sp + 255) % 256, !.addr_abs = 65530]
        lo == read(s7, s7.addr_abs)
        hi == read(s7, s7.addr_abs + 1)
    IN  [s7 EXCEPT !.pc = BitOr(hi * 256, lo) % 65536, !.cycles = 7]

(***************************************************************************)
(* The addressing-mode resolvers.                                          *)
(***************************************************************************)
IMP(s) == Return(s, 0)

IMM(s) ==
    Return([s EXCEPT !.addr_abs = s.pc, !.pc = (s.pc + 1) % 65536], 0)

ZP0(s) ==
    Return([s EXCEPT !.addr_abs = BitAnd(read(s, s.pc), 255),
                     !.pc = (s.pc + 1) % 65536], 0)

\* ZPX without the mask that keeps the address in page zero
ZPX_no_wrap(s) ==
    Return([s EXCEPT !.addr_abs = (read(s, s.pc) + s.x) % 65536,
                     !.pc = (s.pc + 1) % 65536], 0)

ZPX(s) ==
    Return([s EXCEPT !.addr_abs = BitAnd((read(s, s.pc) + s.x) % 65536, 255),
                     !.pc = (s.pc + 1) % 65536], 0)

ZPY(s) ==
    Return([s EXCEPT !.addr_abs = BitAnd((read(s, s.pc) + s.y) % 65536, 255),
                     !.pc = (s.pc + 1) % 65536], 0)

REL(s) ==
    LET r == read(s, s.pc)
    IN  Return([s EXCEPT !.addr_rel =
                   IF BitAnd(r, 128) # 0 THEN BitOr(r, 65280) ELSE r], 0)

ABS(s) ==
    LET addr_low  == read(s, s.pc)
        addr_high == read(s, s.pc + 1)
    IN  Return([s EXCEPT !.pc = (s.pc + 2) % 65536,
                         !.addr_abs = BitOr(addr_high * 256, addr_low)], 0)

\* ABX that never reports the extra cycle
ABX_no_report(s) ==
    LET addr_low  == read(s, s.pc)
        addr_high == read(s, s.pc + 1)
        addr      == (BitOr(addr_high * 256, addr_low) + s.x) % 65536
    IN  Return([s EXCEPT !.pc = (s.pc + 2) % 65536, !.addr_abs = addr], 0)

ABX(s) ==
    LET addr_low  == read(s, s.pc)
        addr_high == read(s, s.pc + 1)
        addr      == (BitOr(addr_high * 256, addr_low) + s.x) % 65536
    IN  Return([s EXCEPT !.pc = (s.pc + 2) % 65536, !.addr_abs = addr],
               IF BitAnd(addr, 65280) # addr_high * 256 THEN 1 ELSE 0)

ABY(s) ==
    LET addr_low  == read(s, s.pc)
        addr_high == read(s, s.pc + 1)
        addr      == (BitOr(addr_high * 256, addr_low) + s.y) % 65536
    IN  Return([s EXCEPT !.pc = (s.pc + 2) % 65536, !.addr_abs = addr],
               IF BitAnd(addr, 65280) # addr_high * 256 THEN 1 ELSE 0)

\* IND fetching the high target byte from the pointer's own page, as the
\* NMOS 6502 does when the pointer's low byte is $FF
IND_page_wrap(s) ==
    LET addr_low_ptr  == read(s, s.pc)
        addr_high_ptr == read(s, s.pc + 1)
        addr_ptr      == BitOr(addr_high_ptr * 256, addr_low_ptr)
        addr_next     == BitOr(addr_high_ptr * 256, (addr_low_ptr + 1) % 256)
    IN  Return([s EXCEPT !.pc = (s.pc + 2) % 65536,
                         !.addr_abs = BitOr(read(s, addr_next) * 256,
                                            read(s, addr_ptr + 0))], 0)

IND(s) ==
    LET addr_low_ptr  == read(s, s.pc)
        addr_high_ptr == read(s, s.pc + 1)
        addr_ptr      == BitOr(addr_high_ptr * 256, addr_low_ptr)
    IN  Return([s EXCEPT !.pc = (s.pc + 2) % 65536,
                         !.addr_abs = BitOr(read(s, addr_ptr + 1) * 256,
                                            read(s, addr_ptr + 0))], 0)

IZX(s) ==
    LET addr_ptr_zp   == (read(s, s.pc) + s.x) % 65536
        addr_low_ptr  == BitAnd(read(s, addr_ptr_zp), 255)
        addr_high_ptr == BitAnd(read(s, addr_ptr_zp + 1), 255)
    IN  Return([s EXCEPT !.pc = (s.pc + 1) % 65536,
                         !.addr_abs = BitOr(addr_high_ptr * 256, addr_low_ptr)], 0)

IZY(s) ==
    LET addr_ptr_zp   == (read(s, s.pc) + s.x) % 65536
        addr_low_ptr  == BitAnd(read(s, addr_ptr_zp), 255)
        addr_high_ptr == BitAnd(read(s, addr_ptr_zp + 1), 255)
    IN  Return([s EXCEPT !.pc = (s.pc + 1) % 65536,
                         !.addr_abs = BitOr(addr_high_ptr * 256, addr_low_ptr)], 0)

(***************************************************************************)
(* The operations.                                                         *)
(***************************************************************************)
ADC(s) ==
    LET data == read(s, s.addr_abs)
        temp == (s.a + data + getFlag(s, C)) % 65536
        s1 == setFlag(s, C, temp > 255)
        s2 == setFlag(s1, Z, BitAnd(temp, 255) = 0)
        s3 == setFlag(s2, V,
                  BitAnd(BitAnd(BitNot(s.a + data), BitXor(s.a, temp)), 128) # 0)
        s4 == setFlag(s3, N, BitAnd(temp, 128) # 0)
    IN  Return([s4 EXCEPT !.a = BitAnd(temp, 255)], 0)

AND(s) ==
    LET data == read(s, s.addr_abs)
        s1 == [s EXCEPT !.a = BitAnd(s.a, data)]
        s2 == setFlag(s1, Z, s1.a = 0)
        s3 == setFlag(s2, N, BitAnd(s2.a, 128) # 0)
    IN  Return(s3, 1)

ASL(s) == Return(s, 0)

\* the body of a branch whose test holds
Branch(s) ==
    LET s1 == [s EXCEPT !.cycles = (s.cycles + 1) % 256]
        s2 == [s1 EXCEPT !.addr_abs = (s1.pc + s1.addr_rel) % 65536]
        s3 == IF BitAnd(s2.addr_abs, 65280) # BitAnd(s2.pc, 65280)
              THEN [s2 EXCEPT !.cycles = (s2.cycles + 1) % 256]
              ELSE s2
    IN  [s3 EXCEPT !.pc = s3.addr_abs]

BCC(s) == Return(IF getFlag(s, C) = 0 THEN Branch(s) ELSE s, 0)

BCS(s) == Return(IF getFlag(s, C) = 1 THEN Branch(s) ELSE s, 0)

BEQ(s) == Return(IF getFlag(s, Z) = 1 THEN Branch(s) ELSE s, 0)

BIT(s) == Return(s, 0)

BMI(s) == Return(IF getFlag(s, N) = 1 THEN Branch(s) ELSE s, 0)

BNE(s) == Return(IF getFlag(s, N) = 0 THEN Branch(s) ELSE s, 0)

BPL(s) == Return(IF getFlag(s, N) = 0 THEN Branch(s) ELSE s, 0)

BRK(s) == Return(s, 0)

BVC(s) == Return(IF getFlag(s, V) = 0 THEN Branch(s) ELSE s, 0)

BVS(s) == Return(IF getFlag(s, V) = 1 THEN Branch(s) ELSE s, 0)

CLC(s) == Return(setFlag(s, C, FALSE), 0)

CLD(s) == Return(setFlag(s, D, FALSE), 0)

CLI(s) == Return(setFlag(s, I, FALSE), 0)

CLV(s) == Return(setFlag(s, V, FALSE), 0)

CMP(s) ==
    LET data == read(s, s.addr_abs)
        tmp == (s.a - data) % 65536
        s1 == setFlag(s, C, s.a > data)
        s2 == setFlag(s1, Z, tmp = 0)
        s3 == setFlag(s2, N, BitAnd(tmp, 128) # 0)
    IN  Return(s3, 0)

CPX(s) ==
    LET data == read(s, s.addr_abs)
        tmp == (s.x - data) % 65536
        s1 == setFlag(s, C, s.x > data)
        s2 == setFlag(s1, Z, tmp = 0)
        s3 == setFlag(s2, N, BitAnd(tmp, 128) # 0)
    IN  Return(s3, 0)

CPY(s) ==
    LET data == read(s, s.addr_abs)
        tmp == (s.y - data) % 65536
        s1 == setFlag(s, C, s.y > data)
        s2 == setFlag(s1, Z, tmp = 0)
        s3 == setFlag(s2, N, BitAnd(tmp, 128) # 0)
    IN  Return(s3, 0)

DEC(s) ==
    LET data == read(s, s.addr_abs)
        tmp == (data - 1) % 256
        s1 == setFlag(s, Z, tmp = 0)
        s2 == setFlag(s1, N, BitAnd(tmp, 128) # 0)
    IN  Return(write(s2, s2.addr_abs, BitAnd(tmp, 255)), 0)

DEX(s) ==
    LET s1 == [s EXCEPT !.x = (s.x - 1) % 256]
        s2 == setFlag(s1, Z, s1.x = 0)
        s3 == setFlag(s2, N, BitAnd(s2.x, 128) # 0)
    IN  Return(s3, 0)

DEY(s) ==
    LET s1 == [s EXCEPT !.y = (s.y - 1) % 256]
        s2 == setFlag(s1, Z, s1.y = 0)
        s3 == setFlag(s2, N, BitAnd(s2.y, 128) # 0)
    IN  Return(s3, 0)

EOR(s) ==
    LET data == read(s, s.addr_abs)
        s1 == [s EXCEPT !.a = BitXor(s.a, data)]
        s2 == setFlag(s1, Z, s1.a = 0)
        s3 == setFlag(s2, N, BitAnd(s2.a, 128) # 0)
    IN  Return(s3, 1)

INC(s) ==
    LET data == read(s, s.addr_abs)
        tmp == (data + 1) % 256
        s1 == setFlag(s, Z, tmp = 0)
        s2 == setFlag(s1, N, BitAnd(tmp, 128) # 0)
    IN  Return(write(s2, s2.pc, tmp), 0)

INX(s) ==
    LET s1 == [s EXCEPT !.x = (s.x + 1) % 256]
        s2 == setFlag(s1, Z, s1.x = 0)
        s3 == setFlag(s2, N, BitAnd(s2.x, 128) # 0)
    IN  Return(s3, 0)

INY(s) ==
    LET s1 == [s EXCEPT !.y = (s.y + 1) % 256]
        s2 == setFlag(s1, Z, s1.y = 0)
        s3 == setFlag(s2, N, BitAnd(s2.y, 128) # 0)
    IN  Return(s3, 0)

JMP(s) == Return([s EXCEPT !.pc = s.addr_abs], 0)

JSR(s) ==
    LET s1 == [s EXCEPT !.pc = (s.pc - 1) % 65536]
        s2 == write(s1, STACK_OFFSET + s1.sp, BitAnd(s1.pc \div 256, 255))
        s3 == [s2 EXCEPT !.sp = (s2.sp + 255) % 256]
        s4 == write(s3, STACK_OFFSET + s3.sp, BitAnd(s3.pc, 255))
        s5 == [s4 EXCEPT !.sp = (s4.sp + 255) % 256]
    IN  Return([s5 EXCEPT !.pc = s5.addr_abs], 0)

LDA(s) ==
    LET s1 == [s EXCEPT !.a = read(s, s.addr_abs)]
        s2 == setFlag(s1, Z, s1.a = 0)
        s3 == setFlag(s2, N, BitAnd(s2.a, 128) # 0)
    IN  Return(s3, 0)

LDX(s) ==
    LET s1 == [s EXCEPT !.x = read(s, s.pc)]
        s2 == setFlag(s1, Z, s1.x = 0)
        s3 == setFlag(s2, N, BitAnd(s2.x, 128) # 0)
    IN  Return(s3, 0)

LDY(s) ==
    LET s1 == [s EXCEPT !.y = read(s, s.addr_abs)]
        s2 == setFlag(s1, Z, s1.y = 0)
        s3 == setFlag(s2, N, BitAnd(s2.y, 128) # 0)
    IN  Return(s3, 0)

\* lookup[opcode].operate == &OLC6502::IMP compares the operation with a
\* resolver
LSR(s) ==
    IF Instruction(s.opcode).operate = "IMP"
    THEN LET data == s.a
             tmp == data \div 2
             s1 == setFlag(s, C, BitAnd(s.a, 1) # 0)
             s2 == setFlag(s1, Z, tmp = 0)
             s3 == setFlag(s2, N, FALSE)
         IN  Return([s3 EXCEPT !.a = tmp], 0)
    ELSE LET data == read(s, s.addr_abs)
             tmp == data \div 2
             s1 == setFlag(s, C, BitAnd(s.a, 1) # 0)
             s2 == setFlag(s1, Z, tmp = 0)
             s3 == setFlag(s2, N, FALSE)
         IN  Return(write(s3, s3.addr_abs, tmp), 0)

NOP(s) ==
    IF s.opcode \in {28, 60, 92, 124, 220, 252}
    THEN Return(s, 1)
    ELSE Return(s, 0)

ORA(s) ==
    LET data == read(s, s.addr_abs)
        s1 == [s EXCEPT !.a = BitOr(s.a, data)]
        s2 == setFlag(s1, Z, s1.a = 0)
        s3 == setFlag(s2, N, BitAnd(s2.a, 128) # 0)
    IN  Return(s3, 0)

PHA(s) ==
    LET s1 == write(s, STACK_OFFSET + s.sp, s.a)
    IN  Return([s1 EXCEPT !.sp = (s1.sp + 255) % 256], 0)

PHP(s) ==
    LET s1 == write(s, STACK_OFFSET + s.sp, BitOr(BitOr(s.status, B), U))
        s2 == setFlag(setFlag(s1, B, FALSE), U, FALSE)
    IN  Return([s2 EXCEPT !.sp = (s2.sp + 255) % 256], 0)

\* PLA reading the stack before it moves the pointer
PLA_read_first(s) ==
    LET s1 == [s EXCEPT !.a = read(s, STACK_OFFSET + s.sp)]
        s2 == [s1 EXCEPT !.sp = (s1.sp + 1) % 256]
        s3 == setFlag(s2, Z, s2.a = 0)
        s4 == setFlag(s3, N, BitAnd(s3.a, 128) # 0)
    IN  Return(s4, 0)

PLA(s) ==
    LET s1 == [s EXCEPT !.sp = (s.sp + 1) % 256]
        s2 == [s1 EXCEPT !.a = read(s1, STACK_OFFSET + s1.sp)]
        s3 == setFlag(s2, Z, s2.a = 0)
        s4 == setFlag(s3, N, BitAnd(s3.a, 128) # 0)
    IN  Return(s4, 0)

\* PLP with the pointer's carry reaching the page byte of the address
PLP_carry(s) ==
    LET s1 == [s EXCEPT !.status = read(s, STACK_OFFSET + s.sp + 1)]
        s2 == [s1 EXCEPT !.sp = (s1.sp + 1) % 256]
    IN  Return(setFlag(s2, U, TRUE), 0)

PLP(s) ==
    LET s1 == [s EXCEPT !.sp = (s.sp + 1) % 256]
        s2 == [s1 EXCEPT !.status = read(s1, STACK_OFFSET + s1.sp)]
    IN  Return(setFlag(s2, U, TRUE), 0)

ROL(s) ==
    IF Instruction(s.opcode).operate = "IMP"
    THEN LET data == s.a
             tmp == BitOr(data * 2, getFlag(s, C)) % 256
             s1 == setFlag(s, C, BitAnd(data, 128) # 0)
             s2 == setFlag(s1, Z, tmp = 0)
             s3 == setFlag(s2, N, BitAnd(tmp, 128) # 0)
         IN  Return([s3 EXCEPT !.a = tmp], 0)
    ELSE LET data == read(s, s.addr_abs)
             tmp == BitOr(data * 2, getFlag(s, C)) % 256
             s1 == setFlag(s, C, BitAnd(data, 128) # 0)
             s2 == setFlag(s1, Z, tmp = 0)
             s3 == setFlag(s2, N, BitAnd(tmp, 128) # 0)
         IN  Return(write(s3, s3.addr_abs, tmp), 0)

ROR(s) ==
    IF Instruction(s.opcode).operate = "IMP"
    THEN LET data == s.a
             tmp == BitOr(data \div 2, getFlag(s, C) * 128) % 256
             s1 == setFlag(s, C, BitAnd(data, 1) # 0)
             s2 == setFlag(s1, Z, tmp = 0)
             s3 == setFlag(s2, N, BitAnd(tmp, 128) # 0)
         IN  Return([s3 EXCEPT !.a = tmp], 0)
    ELSE LET data == read(s, s.addr_abs)
             tmp == BitOr(data * 2, getFlag(s, C) * 128) % 256
             s1 == setFlag(s, C, BitAnd(data, 1) # 0)
             s2 == setFlag(s1, Z, tmp = 0)
             s3 == setFlag(s2, N, BitAnd(tmp, 128) # 0)
         IN  Return(write(s3, s3.addr_abs, tmp), 0)

RTI(s) ==
    LET s1 == [s EXCEPT !.sp = (s.sp + 1) % 256]
        s2 == [s1 EXCEPT !.status = read(s1, STACK_OFFSET + s1.sp)]
        s3 == [s2 EXCEPT !.status = BitAnd(s2.status, BitNot(B) % 256)]
        s4 == [s3 EXCEPT !.status = BitAnd(s3.status, BitNot(U) % 256)]
        s5 == [s4 EXCEPT !.sp = (s4.sp + 1) % 256]
        lo == read(s5, STACK_OFFSET + s5.sp)
        s6 == [s5 EXCEPT !.sp = (s5.sp + 1) % 256]
        hi == read(s6, STACK_OFFSET + s6.sp)
    IN  Return([s6 EXCEPT !.pc = BitOr(hi * 256, lo)], 0)

\* RTS without the increment of the address it pulled
RTS_no_increment(s) ==
    LET s1 == [s EXCEPT !.sp = (s.sp + 1) % 256]
        lo == read(s1, STACK_OFFSET + s1.sp)
        s2 == [s1 EXCEPT !.sp = (s1.sp + 1) % 256]
        hi == read(s2, STACK_OFFSET + s2.sp)
    IN  Return([s2 EXCEPT !.pc = BitOr(hi * 256, lo)], 0)

RTS(s) ==
    LET s1 == [s EXCEPT !.sp = (s.sp + 1) % 256]
        lo == read(s1, STACK_OFFSET + s1.sp)
        s2 == [s1 EXCEPT !.sp = (s1.sp + 1) % 256]
        hi == read(s2, STACK_OFFSET + s2.sp)
        s3 == [s2 EXCEPT !.pc = BitOr(hi * 256, lo)]
    IN  Return([s3 EXCEPT !.pc = (s3.pc + 1) % 65536], 0)

SBC(s) ==
    LET data == read(s, s.addr_abs)
        temp == (s.a + data + getFlag(s, C)) % 65536
        s1 == setFlag(s, C, BitAnd(temp, 255) # 0)
        s2 == setFlag(s1, Z, BitAnd(temp, 255) = 0)
        s3 == setFlag(s2, V,
                  BitAnd(BitAnd(s.a + data, BitXor(s.a, temp)), 128) # 0)
        s4 == setFlag(s3, N, BitAnd(temp, 128) # 0)
    IN  Return([s4 EXCEPT !.a = BitAnd(temp, 255)], 0)

SEC(s) == Return(setFlag(s, C, TRUE), 0)

SED(s) == Return(setFlag(s, D, TRUE), 0)

SEI(s) == Return(setFlag(s, I, TRUE), 0)

STA(s) == Return(write(s, s.addr_abs, s.a), 0)

STX(s) == Return(write(s, s.addr_abs, s.x), 0)

STY(s) == Return(write(s, s.addr_abs, s.y), 0)

TAX(s) ==
    LET s1 == [s EXCEPT !.x = read(s, s.addr_abs)]
        s2 == setFlag(s1, Z, s1.x = 0)
        s3 == setFlag(s2, N, BitAnd(s2.x, 128) # 0)
    IN  Return(s3, 0)

TAY(s) ==
    LET s1 == [s EXCEPT !.y = read(s, s.addr_abs)]
        s2 == setFlag(s1, Z, s1.y = 0)
        s3 == setFlag(s2, N, BitAnd(s2.y, 128) # 0)
    IN  Return(s3, 0)

TSX(s) ==
    LET s1 == [s EXCEPT !.x = s.sp]
        s2 == setFlag(s1, Z, s1.x = 0)
        s3 == setFlag(s2, N, BitAnd(s2.x, 128) # 0)
    IN  Return(s3, 0)

TXA(s) ==
    LET s1 == [s EXCEPT !.a = s.x]
        s2 == setFlag(s1, Z, s1.a = 0)
        s3 == setFlag(s2, N, BitAnd(s2.a, 128) # 0)
    IN  Return(s3, 0)

TXS(s) == Return([s EXCEPT !.sp = s.x], 0)

TYA(s) == Return([s EXCEPT !.a = s.y], 0)

XXX(s) == Return(s, 0)

(***************************************************************************)
(* Dispatch through the table's member-function pointers, and clock().     *)
(***************************************************************************)
addrmode(s, mode) ==
    CASE mode = "IMP" -> IMP(s) [] mode = "IMM" -> IMM(s)
      [] mode = "ZP0" -> ZP0(s) [] mode = "ZPX" -> ZPX(s)
      [] mode = "ZPY" -> ZPY(s) [] mode = "REL" -> REL(s)
      [] mode = "ABS" -> ABS(s) [] mode = "ABX" -> ABX(s)
      [] mode = "ABY" -> ABY(s) [] mode = "IND" -> IND(s)
      [] mode = "IZX" -> IZX(s) [] mode = "IZY" -> IZY(s)

operate(s, op) ==
    CASE op = "ADC" -> ADC(s) [] op = "AND" -> AND(s) [] op = "ASL" -> ASL(s)
      [] op = "BCC" -> BCC(s) [] op = "BCS" -> BCS(s) [] op = "BEQ" -> BEQ(s)
      [] op = "BIT" -> BIT(s) [] op = "BMI" -> BMI(s) [] op = "BNE" -> BNE(s)
      [] op = "BPL" -> BPL(s) [] op = "BRK" -> BRK(s) [] op = "BVC" -> BVC(s)
      [] op = "BVS" -> BVS(s) [] op = "CLC" -> CLC(s) [] op = "CLD" -> CLD(s)
      [] op = "CLI" -> CLI(s) [] op = "CLV" -> CLV(s) [] op = "CMP" -> CMP(s)
      [] op = "CPX" -> CPX(s) [] op = "CPY" -> CPY(s) [] op = "DEC" -> DEC(s)
      [] op = "DEX" -> DEX(s) [] op = "DEY" -> DEY(s) [] op = "EOR" -> EOR(s)
      [] op = "INC" -> INC(s) [] op = "INX" -> INX(s) [] op = "INY" -> INY(s)
      [] op = "JMP" -> JMP(s) [] op = "JSR" -> JSR(s) [] op = "LDA" -> LDA(s)
      [] op = "LDX" -> LDX(s) [] op = "LDY" -> LDY(s) [] op = "LSR" -> LSR(s)
      [] op = "NOP" -> NOP(s) [] op = "ORA" -> ORA(s) [] op = "PHA" -> PHA(s)
      [] op = "PHP" -> PHP(s) [] op = "PLA" -> PLA(s) [] op = "PLP" -> PLP(s)
      [] op = "ROL" -> ROL(s) [] op = "ROR" -> ROR(s) [] op = "RTI" -> RTI(s)
      [] op = "RTS" -> RTS(s) [] op = "SBC" -> SBC(s) [] op = "SEC" -> SEC(s)
      [] op = "SED" -> SED(s) [] op = "SEI" -> SEI(s) [] op = "STA" -> STA(s)
      [] op = "STX" -> STX(s) [] op = "STY" -> STY(s) [] op = "TAX" -> TAX(s)
      [] op = "TAY" -> TAY(s) [] op = "TSX" -> TSX(s) [] op = "TXA" -> TXA(s)
      [] op = "TXS" -> TXS(s) [] op = "TYA" -> TYA(s) [] op = "XXX" -> XXX(s)

\* the two signals combined with | where the code has &
additional_cycle_or(additional_cycle1, additional_cycle2) ==
    BitOr(additional_cycle1, additional_cycle2)

\* additional_cycle1 & additional_cycle2
additional_cycle(additional_cycle1, additional_cycle2) ==
    BitAnd(additional_cycle1, additional_cycle2)

\* the fetch without the load of the instruction's cost
resolved_no_cost(s) ==
    LET s1 == [s EXCEPT !.opcode = read(s, s.pc)]
        s2 == setFlag(s1, U, TRUE)
        s3 == [s2 EXCEPT !.pc = (s2.pc + 1) % 65536]
    IN  addrmode(s3, Instruction(s3.opcode).addrmode)

\* the state in which the operation of the instruction at s.pc starts:
\* opcode fetched, base cycles loaded, operand resolved
resolved(s) ==
    LET s1 == [s EXCEPT !.opcode = read(s, s.pc)]
        s2 == setFlag(s1, U, TRUE)
        s3 == [s2 EXCEPT !.pc = (s2.pc + 1) % 65536]
        s4 == [s3 EXCEPT !.cycles = Instruction(s3.opcode).cycles]
    IN  addrmode(s4, Instruction(s4.opcode).addrmode)

\* the state in which the operation has returned
operated(s) ==
    LET s5 == resolved(s)
    IN  operate(s5, Instruction(s5.opcode).operate)

complete(s) == s.cycles = 0

\* clock() without the setFlag(U, true) that follows the instruction
clock_leave_unused(s) ==
    LET t == IF s.cycles = 0
             THEN LET s5 == resolved(s)
                      s6 == operated(s)
                  IN  [s6 EXCEPT !.cycles =
                         (s6.cycles + additional_cycle(s5.ret, s6.ret)) % 256]
             ELSE s
    IN  [t EXCEPT !.cycle_count = t.cycle_count + 1,
                  !.cycles = (t.cycles + 255) % 256]

\* clock() counting a tick only when it fetches an instruction
clock_count_fetches(s) ==
    LET t == IF s.cycles = 0
             THEN LET s5 == resolved(s)
                      s6 == operated(s)
                      s7 == [s6 EXCEPT !.cycles =
                               (s6.cycles + additional_cycle(s5.ret, s6.ret)) % 256]
                      s8 == setFlag(s7, U, TRUE)
                  IN  [s8 EXCEPT !.cycle_count = s8.cycle_count + 1]
             ELSE s
    IN  [t EXCEPT !.cycles = (t.cycles + 255) % 256]

clock(s) ==
    LET t == IF s.cycles = 0
             THEN LET s5 == resolved(s)
                      s6 == operated(s)
                      s7 == [s6 EXCEPT !.cycles =
                               (s6.cycles + additional_cycle(s5.ret, s6.ret)) % 256]
                  IN  setFlag(s7, U, TRUE)
             ELSE s
    IN  [t EXCEPT !.cycle_count = t.cycle_count + 1,
                  !.cycles = (t.cycles + 255) % 256]

(***************************************************************************)
(* The state of the core and its bus as one record, and the entry points   *)
(* as actions.                                                             *)
(***************************************************************************)
State ==
    [a |-> a, x |-> x, y |-> y, sp |-> sp, pc |-> pc, status |-> status,
     addr_abs |-> addr_abs, addr_rel |-> addr_rel, opcode |-> opcode,
     cycles |-> cycles, cycle_count |-> cycle_count, ram |-> ram,
     bus |-> bus, undef |-> 0, ret |-> 0]

\* the state at the entry of a handler in which a read() without a Bus
\* returns u
Entry(u) == [State EXCEPT !.undef = u]

\* the bytes the handlers' undefined reads can return in the current state
UndefinedReads == IF bus THEN {0} ELSE UndefinedBytes

Becomes(t) ==
    /\ a' = t.a
    /\ x' = t.x
    /\ y' = t.y
    /\ sp' = t.sp
    /\ pc' = t.pc
    /\ status' = t.status
    /\ addr_abs' = t.addr_abs
    /\ addr_rel' = t.addr_rel
    /\ opcode' = t.opcode
    /\ cycles' = t.cycles
    /\ cycle_count' = t.cycle_count
    /\ ram' = t.ram
    /\ bus' = t.bus

Clock ==
    /\ calls < MaxCalls
    /\ \E u \in UndefinedReads : Becomes(clock(Entry(u)))
    /\ calls' = calls + 1

Reset ==
    /\ calls < MaxCalls
    /\ \E u \in UndefinedReads : Becomes(reset(Entry(u)))
    /\ calls' = calls + 1

Irq ==
    /\ calls < MaxCalls
    /\ \E u \in UndefinedReads : Becomes(irq(Entry(u)))
    /\ calls' = calls + 1

Nmi ==
    /\ calls < MaxCalls
    /\ \E u \in UndefinedReads : Becomes(nmi(Entry(u)))
    /\ calls' = calls + 1

\* clock() called by a host that makes no other call
Tick ==
    /\ cycle_count < MaxTicks
    /\ \E u \in UndefinedReads : Becomes(clock(Entry(u)))
    /\ calls' = calls + 1

(***************************************************************************)
(* Bus contents and register files the checks start from.  A bus content   *)
(* is the background below with a three-byte program at the address the    *)
(* program counter holds; the core is at an instruction boundary.          *)
(***************************************************************************)
RECURSIVE Load(_, _, _)
Load(m, address, bytes) ==
    IF bytes = <<>> THEN m
    ELSE Load(Bus_write(m, address % 65536, Head(bytes)),
              address + 1, Tail(bytes))

\* nmi vector $0310, reset vector $0320, irq vector $0330; a few data
\* bytes in page zero and in the stack page
Background ==
    Load(Load(Load(Load(Load(<<>>,
        65530, <<16, 3, 32, 3, 48, 3>>),
        0, <<17, 127, 255, 128, 1>>),
        254, <<64, 2, 170, 85>>),
        510, <<3, 129>>),
        773, <<90, 165>>)

Image(org, op, b1, b2) == Load(Background, org, <<op, b1, b2>>)

InitWith(orgs, ops, b1s, b2s, accs, xs, ys, sps, sts) ==
    \E org \in orgs, op \in ops, b1 \in b1s, b2 \in b2s,
       va \in accs, vx \in xs, vy \in ys, vsp \in sps, vst \in sts :
        /\ a = va
        /\ x = vx
        /\ y = vy
        /\ sp = vsp
        /\ pc = org
        /\ status = vst
        /\ addr_abs = 0
        /\ addr_rel = 0
        /\ opcode = 0
        /\ cycles = 0
        /\ cycle_count = 0
        /\ ram = Image(org, op, b1, b2)
        /\ bus = TRUE
        /\ calls = 0

\* The machine a host drives with all four entry points.
Init ==
    InitWith({764}, {234, 88, 120, 72, 8, 40, 64, 169, 144, 141, 2},
             {5}, {3}, {0, 128}, {1}, {2}, {253, 1}, {32, 36, 0, 255})

Next == Clock \/ Reset \/ Irq \/ Nmi

Spec == Init /\ [][Next]_vars


\* One instruction of each opcode value, run by clock() alone.
InitOpcodes ==
    InitWith({764}, 0..255, {5, 255}, {3}, {128}, {1}, {2}, {253}, {32, 227})

NextClock == Clock

SpecOpcodes == InitOpcodes /\ [][NextClock]_vars

\* Operand and register bytes the arithmetic checks draw from.
ByteSample == {0, 1, 2, 15, 16, 63, 64, 80, 127, 128, 129, 160, 192, 208, 254, 255}

\* ADC, SBC and CMP immediate on the accumulator, CPX and CPY immediate on
\* X and Y, with Carry clear and set.
InitALU ==
    \/ InitWith({764}, {105, 233, 201}, ByteSample, {0}, ByteSample, {1}, {2},
                {253}, {32, 33})
    \/ InitWith({764}, {224}, ByteSample, {0}, {3}, ByteSample, {2},
                {253}, {32, 33})
    \/ InitWith({764}, {192}, ByteSample, {0}, {3}, {1}, ByteSample,
                {253}, {32, 33})

SpecALU == InitALU /\ [][NextClock]_vars

\* The eight branches, at the end of a page and inside one, over forward and
\* backward displacements and every value of Carry, Zero, Overflow, Negative.
BranchOpcodes == {16, 48, 80, 112, 144, 176, 208, 240}

InitBranch ==
    InitWith({764, 592}, BranchOpcodes, {0, 2, 5, 127, 128, 251, 255}, {234},
             {0}, {1}, {2}, {253},
             {32 + fc + fz + fv + fn :
                 fc \in {0, C}, fz \in {0, Z}, fv \in {0, V}, fn \in {0, N}})

SpecBranch == InitBranch /\ [][NextClock]_vars

(***************************************************************************)
(* Vocabulary of the claims.                                               *)
(***************************************************************************)
\* this step is a call of clock(): nothing else moves cycle_count
ClockStep == cycle_count' = cycle_count + 1

\* this step is clock() called at an instruction boundary
FetchStep == ClockStep /\ cycles = 0

\* the opcode a boundary tick is about to fetch, and the byte after it
NextOpcode == Bus_read(ram, pc)
Operand1 == Bus_read(ram, (pc + 1) % 65536)

Flag(st, flag) == (st \div flag) % 2

Page(address) == address \div 256

\* a byte read as a two's-complement number
Signed(byte) == IF byte >= 128 THEN byte - 256 ELSE byte

IsBranch(op) == op \in BranchOpcodes

\* the documented test of each branch opcode
BranchCondition(op, st) ==
    CASE op = 16  -> Flag(st, N) = 0     \* BPL
      [] op = 48  -> Flag(st, N) = 1     \* BMI
      [] op = 80  -> Flag(st, V) = 0     \* BVC
      [] op = 112 -> Flag(st, V) = 1     \* BVS
      [] op = 144 -> Flag(st, C) = 0     \* BCC
      [] op = 176 -> Flag(st, C) = 1     \* BCS
      [] op = 208 -> Flag(st, Z) = 0     \* BNE
      [] op = 240 -> Flag(st, Z) = 1     \* BEQ


(***************************************************************************)
(* C1: cycles charged per instruction.                                     *)
(***************************************************************************)
\* base_cycles + (addr_extra AND op_extra) for the instruction a boundary
\* tick is about to run
TabulatedCost ==
    Instruction(NextOpcode).cycles
        + BitAnd(resolved(State).ret, operated(State).ret)

C3_AdcOverflow ==
    [][(FetchStep /\ NextOpcode = 105) =>
          LET ssum == Signed(a) + Signed(Operand1) + Flag(status, C)
          IN  /\ (a = 80 /\ Operand1 = 80 /\ Flag(status, C) = 0) =>
                    /\ a' = 160
                    /\ Flag(status', C) = 0
                    /\ Flag(status', V) = 1
                    /\ Flag(status', N) = 1
                    /\ Flag(status', Z) = 0
              /\ (a = 255 /\ Operand1 = 1 /\ Flag(status, C) = 0) =>
                    /\ a' = 0
                    /\ Flag(status', C) = 1
                    /\ Flag(status', Z) = 1
                    /\ Flag(status', V) = 0
              /\ Flag(status', V) = 1 <=> (ssum < -128 \/ ssum > 127)]_vars

(***************************************************************************)
(* C4: SBC.                                                                *)
(***************************************************************************)
\* C4: SBC immediate sets A to (A + (M XOR $FF) + C) mod 256, Carry to 1
\* exactly when that sum exceeds 255, and Zero and Negative from the new A.
C4_SbcComplement ==
    [][(FetchStep /\ NextOpcode = 233) =>
          LET sum == a + BitXor(Operand1, 255) + Flag(status, C)
          IN  /\ a' = sum % 256
              /\ Flag(status', C) = 1 <=> sum > 255
              /\ Flag(status', Z) = 1 <=> a' = 0
              /\ Flag(status', N) = 1 <=> a' >= 128]_vars

(***************************************************************************)
(* C5: CMP, CPX, CPY.                                                      *)
(***************************************************************************)
\* the register an immediate compare opcode compares
Compared(op) == CASE op = 201 -> a [] op = 224 -> x [] op = 192 -> y

\* C5: CMP, CPX and CPY immediate set Carry exactly when R >= M, Zero
\* exactly when R = M, Negative to bit 7 of R - M, and change neither the
\* registers nor memory.
C5_Compare ==
    [][(FetchStep /\ NextOpcode \in {201, 224, 192}) =>
          LET R == Compared(NextOpcode)
              M == Operand1
          IN  /\ Flag(status', C) = 1 <=> R >= M
              /\ Flag(status', Z) = 1 <=> R = M
              /\ Flag(status', N) = (((R - M) % 65536) \div 128) % 2
              /\ a' = a /\ x' = x /\ y' = y
              /\ ram' = ram]_vars

(***************************************************************************)
(* C6, C7, C8: the branches.                                               *)
(***************************************************************************)
\* the address of the instruction after a two-byte instruction at pc
NextInstruction == (pc + 2) % 65536

\* the address a branch at pc jumps to
BranchTarget == (pc + 2 + Signed(Operand1)) % 65536

\* C6: a branch not taken takes its base 2 clock() calls; a branch taken
\* takes base + 1, and base + 2 exactly when the page of the branch target
\* differs from the page of the next instruction.
C6_BranchCost ==
    [][(FetchStep /\ IsBranch(NextOpcode)) =>
          cycles' + 1 =
              IF BranchCondition(NextOpcode, status)
              THEN Instruction(NextOpcode).cycles + 1
                     + (IF Page(BranchTarget) # Page(NextInstruction)
                        THEN 1 ELSE 0)
              ELSE Instruction(NextOpcode).cycles]_vars

\* C7: after a branch at P with displacement d, PC = P + 2 when it is not
\* taken and PC = P + 2 + signext(d) when it is taken.
C7_BranchPC ==
    [][(FetchStep /\ IsBranch(NextOpcode)) =>
          pc' = IF BranchCondition(NextOpcode, status)
                THEN BranchTarget
                ELSE NextInstruction]_vars

\* C8: each branch is taken (it charges its taken-branch cycle) exactly
\* when its documented flag test holds: BEQ iff Zero set, BNE iff Zero
\* clear, BCS/BCC on Carry, BMI/BPL on Negative, BVS/BVC on Overflow, so of
\* each pair exactly one is taken in any status.
C8_BranchFlags ==
    [][(FetchStep /\ IsBranch(NextOpcode)) =>
          (cycles' + 1 > Instruction(NextOpcode).cycles
              <=> BranchCondition(NextOpcode, status))]_vars


(***************************************************************************)
(* C9: reset().                                                            *)
(***************************************************************************)
\* the 16-bit word the bus holds at a vector address
Vector(address) ==
    Bus_read(ram, address) + 256 * Bus_read(ram, address + 1)

\* C9: reset(), at a boundary or mid-instruction, leaves SP = $FC, status =
\* $20, A = X = Y = 0, PC = the word at $FFFC/$FFFD and 8 cycles pending;
\* and a clock() call with cycles pending only takes one off, fetching and
\* changing nothing else, so complete() is next true after exactly 8 calls.
C9_Reset ==
    [][/\ Reset =>
            /\ sp' = 252
            /\ status' = 32
            /\ a' = 0 /\ x' = 0 /\ y' = 0
            /\ pc' = Vector(65532)
            /\ cycles' = 8
            /\ ram' = ram
       /\ (ClockStep /\ cycles > 0) =>
            /\ cycles' = cycles - 1
            /\ UNCHANGED <<a, x, y, sp, pc, status, opcode, ram>>]_vars

\* reset() was called mid-instruction, one tick into the first instruction,
\* and two of its 8 cycles have since been clocked away.
C9_Witness ==
    /\ calls = 4
    /\ cycle_count = 3
    /\ cycles = 6
    /\ sp = 252 /\ status = 32 /\ a = 0 /\ x = 0 /\ y = 0
    /\ pc = 800

(***************************************************************************)
(* C10: interrupt masking.                                                 *)
(***************************************************************************)
\* C10: with InterruptDisable set irq() changes no register, no counter and
\* no memory byte; nmi(), whatever InterruptDisable is, pushes PC high, PC
\* low and the status, takes 3 off SP and loads PC from $FFFA/$FFFB.
C10_Masking ==
    [][/\ (Irq /\ Flag(status, I) = 1) =>
            UNCHANGED <<a, x, y, sp, pc, status, cycles, cycle_count, ram>>
       /\ Nmi =>
            /\ pc' = Vector(65530)
            /\ sp' = (sp - 3) % 256
            /\ Bus_read(ram', STACK_OFFSET + sp) = pc \div 256
            /\ Bus_read(ram', STACK_OFFSET + ((sp - 1) % 256)) = pc % 256
            /\ Bus_read(ram', STACK_OFFSET + ((sp - 2) % 256)) = status'
            /\ Flag(status', I) = 1]_vars

\* Two calls and no clock tick from a boundary: three bytes pushed and PC at
\* the NMI vector, so one call was an nmi() that took effect and the other
\* an irq() that found InterruptDisable set and did nothing.
C10_Witness ==
    /\ calls = 2
    /\ cycle_count = 0
    /\ cycles = 7
    /\ sp = 250
    /\ pc = 784
    /\ Bus_read(ram, 509) = 2 /\ Bus_read(ram, 508) = 252
    /\ Bus_read(ram, 507) = 36

(***************************************************************************)
(* C11: interrupt entry.                                                   *)
(***************************************************************************)
\* the status byte an interrupt entry stacks: Break clear, InterruptDisable
\* and Unused set, the other flags as they were
StackedStatus == BitOr(BitAnd(status, 255 - B), I + U)

\* the three bytes an interrupt entry pushes, the stack pointer and the
\* pending cost it leaves
InterruptEntry ==
    /\ Bus_read(ram', STACK_OFFSET + sp) = pc \div 256
    /\ Bus_read(ram', STACK_OFFSET + ((sp - 1) % 256)) = pc % 256
    /\ Bus_read(ram', STACK_OFFSET + ((sp - 2) % 256)) = StackedStatus
    /\ sp' = (sp - 3) % 256
    /\ cycles' = 7

\* C11: an irq() that finds InterruptDisable clear, and every nmi(), writes
\* PC's high byte at $0100+S, PC's low byte at $0100+((S-1) mod 256) and the
\* status with Break clear and InterruptDisable and Unused set at
\* $0100+((S-2) mod 256), leaves SP = (S-3) mod 256, loads PC from
\* $FFFE/$FFFF (irq) or $FFFA/$FFFB (nmi), and leaves 7 cycles pending
\* whatever was pending before.
C11_InterruptEntry ==
    [][/\ (Irq /\ Flag(status, I) = 0) =>
            (InterruptEntry /\ pc' = Vector(65534))
       /\ Nmi =>
            (InterruptEntry /\ pc' = Vector(65530))]_vars

\* irq() taken one tick into a two-cycle instruction, with the stack
\* pointer at $01: the pushes wrap from $0100 to $01FF, and the cycle that
\* was left of the instruction is replaced by 7.
C11_Witness ==
    /\ calls = 2
    /\ cycle_count = 1
    /\ cycles = 7
    /\ pc = 816
    /\ sp = 254
    /\ Bus_read(ram, 257) = 2
    /\ Bus_read(ram, 256) = 253
    /\ Bus_read(ram, 511) = 36

(***************************************************************************)
(* Programs of several instructions, run by clock() alone.                 *)
(***************************************************************************)
\* the core at the instruction boundary before the program at org of the
\* bus content image
InitProgram(org, image, va, vx, vy, vsp, vst) ==
    /\ a = va
    /\ x = vx
    /\ y = vy
    /\ sp = vsp
    /\ pc = org
    /\ status = vst
    /\ addr_abs = 0
    /\ addr_rel = 0
    /\ opcode = 0
    /\ cycles = 0
    /\ cycle_count = 0
    /\ ram = image
    /\ bus = TRUE
    /\ calls = 0

NextTick == Tick

(***************************************************************************)
(* C12: PHA then PLA.                                                      *)
(***************************************************************************)
\* PHA; LDA #$5A; PLA at $02FC.  No instruction of the program writes X or
\* Y: X starts as a copy of the stack pointer and Y as a copy of the
\* accumulator, and keep the values the program started with.
InitStack ==
    \/ \E va \in 0..255, vsp \in {0, 253, 255} :
          InitProgram(764, Load(Background, 764, <<72, 169, 90, 104>>),
                      va, vsp, va, vsp, 32)
    \/ \E va \in {0, 165}, vsp \in 0..255 :
          InitProgram(764, Load(Background, 764, <<72, 169, 90, 104>>),
                      va, vsp, va, vsp, 32)

SpecStack == InitStack /\ [][NextTick]_vars

\* the PLA at $02FF has executed and nothing after it has been fetched
PlaDone == opcode = 104 /\ pc = 768

\* C12: once PHA and then PLA have executed, with the accumulator loaded
\* with another value between them, the accumulator holds the value it had
\* before PHA and the stack pointer the value it had before PHA, for every
\* accumulator value and every stack pointer value, $00 included.
C12_StackRoundTrip == PlaDone => (a = y /\ sp = x)

\* The round trip from SP = $00: the push went to $0100, the pointer
\* wrapped to $FF and back, and $A5 returned to the accumulator after
\* LDA #$5A had replaced it; all 3 + 2 + 4 cycles are spent.
C12_Witness ==
    /\ PlaDone
    /\ cycle_count = 9
    /\ cycles = 0
    /\ x = 0 /\ sp = 0
    /\ y = 165 /\ a = 165
    /\ Bus_read(ram, 256) = 165

(***************************************************************************)
(* C13: JSR then RTS.                                                      *)
(***************************************************************************)
\* JSR $0340 at P, and RTS at $0340.  Neither instruction writes A, X or
\* Y: A and Y start as the low and high byte of P and X as a copy of the
\* stack pointer.
CallImage(P) == Load(Load(Background, 832, <<96>>), P, <<32, 64, 3>>)

InitCall ==
    \/ \E vsp \in 0..255 :
          InitProgram(764, CallImage(764),
                      764 % 256, vsp, 764 \div 256, vsp, 32)
    \/ \E P \in {253, 254, 65533, 65534, 65535}, vsp \in {0, 1, 2, 253, 255} :
          InitProgram(P, CallImage(P), P % 256, vsp, P \div 256, vsp, 32)

SpecCall ==
    /\ InitCall
    /\ [][NextTick]_vars

\* the address of the JSR the run started at
CallSite == a + 256 * y

\* the RTS has executed and nothing after it has been fetched
RtsDone == opcode = 96

\* C13: for a JSR at P whose target starts with RTS, once both have
\* executed PC = (P + 3) mod 65536 and the stack pointer is what it was
\* before the JSR, for every P and every stack pointer value.
C13_CallReturn ==
    RtsDone => (pc = (CallSite + 3) % 65536 /\ sp = x)

\* JSR at $FFFE with SP = $00: the operand bytes wrap to $0000 and $0001,
\* the return address $0000 is pushed at $0100 and $01FF, and after the
\* RTS and all 6 + 6 cycles PC = $0001 and SP = $00.
C13_Witness ==
    /\ RtsDone
    /\ CallSite = 65534
    /\ cycle_count = 12
    /\ cycles = 0
    /\ pc = 1
    /\ x = 0 /\ sp = 0
    /\ Bus_read(ram, 256) = 0 /\ Bus_read(ram, 511) = 0

(***************************************************************************)
(* C14, C15: indexed addressing.                                           *)
(***************************************************************************)
\* the opcodes the table resolves with one of the given addressing modes
OpcodesOf(modes) == {op \in 0..255 : Instruction(op).addrmode \in modes}

\* the second byte after the opcode a boundary tick is about to fetch
Operand2 == Bus_read(ram, (pc + 2) % 65536)

\* the index register of the addressing mode of the next instruction
Index ==
    IF Instruction(NextOpcode).addrmode \in {"ZPX", "ABX"} THEN x ELSE y

\* Every instruction with zero-page indexed addressing over a few operand
\* and index bytes; LDA zp,X and LDX zp,Y over every operand byte and over
\* every index byte.
InitZeroPage ==
    \/ InitWith({764}, OpcodesOf({"ZPX", "ZPY"}), {0, 1, 128, 254, 255}, {3},
                {0}, {0, 2, 255}, {0, 2, 255}, {253}, {32})
    \/ InitWith({764}, {181}, 0..255, {3}, {0}, {2, 255}, {7}, {253}, {32})
    \/ InitWith({764}, {182}, 0..255, {3}, {0}, {7}, {2, 255}, {253}, {32})
    \/ InitWith({764}, {181}, {1, 255}, {3}, {0}, 0..255, {7}, {253}, {32})
    \/ InitWith({764}, {182}, {1, 255}, {3}, {0}, {7}, 0..255, {253}, {32})

SpecZeroPage == InitZeroPage /\ [][NextClock]_vars

\* C14: ZPX and ZPY resolve operand byte b and index i to the effective
\* address (b + i) mod 256, always in $0000..$00FF: $FF with X = $02 gives
\* $0001, not $0101.
C14_ZeroPageWrap ==
    [][(FetchStep /\ Instruction(NextOpcode).addrmode \in {"ZPX", "ZPY"}) =>
          /\ addr_abs' = (Operand1 + Index) % 256
          /\ addr_abs' \in 0..255]_vars

\* LDA $FF,X with X = $02 resolved to $0001 and loaded the byte there.
C14_Witness ==
    /\ opcode = 181
    /\ cycle_count = 1
    /\ x = 2
    /\ Bus_read(ram, 765) = 255
    /\ addr_abs = 1
    /\ a = Bus_read(ram, 1) /\ a = 127

\* Every instruction with absolute indexed addressing over a few bases and
\* index bytes; AND abs,X and AND abs,Y over every low byte of the base and
\* over every index byte.
InitAbsolute ==
    \/ InitWith({764}, OpcodesOf({"ABX", "ABY"}), {0, 1, 254, 255}, {2, 255},
                {0}, {0, 2, 255}, {1, 255}, {253}, {32})
    \/ InitWith({764}, {61}, 0..255, {2}, {15}, {1, 255}, {7}, {253}, {32})
    \/ InitWith({764}, {57}, 0..255, {2}, {15}, {7}, {1, 255}, {253}, {32})
    \/ InitWith({764}, {61}, {1, 255}, {255}, {15}, 0..255, {7}, {253}, {32})
    \/ InitWith({764}, {57}, {1, 255}, {255}, {15}, {7}, 0..255, {253}, {32})

SpecAbsolute == InitAbsolute /\ [][NextClock]_vars

\* C15: ABX and ABY resolve base and index to (base + index) mod 65536 and
\* report 1 extra cycle exactly when the base's low byte plus the index
\* exceeds $FF, which is when the high byte of the effective address
\* differs from the base's; AND and EOR, which take the extra cycle a
\* resolver reports, then cost one more.
C15_PageCross ==
    [][(FetchStep /\ Instruction(NextOpcode).addrmode \in {"ABX", "ABY"}) =>
          LET base == Operand1 + 256 * Operand2
              extra == resolved(State).ret
          IN  /\ addr_abs' = (base + Index) % 65536
              /\ extra = (IF Operand1 + Index > 255 THEN 1 ELSE 0)
              /\ extra = (IF Page(addr_abs') # Operand2 THEN 1 ELSE 0)
              /\ Instruction(NextOpcode).operate \in {"AND", "EOR"} =>
                    cycles' = Instruction(NextOpcode).cycles + extra - 1]_vars

\* AND $FFFF,X with X = $02: the effective address wrapped to $0001 in
\* another page, and the boundary tick left 4 + 1 - 1 cycles pending.
C15_Witness ==
    /\ opcode = 61
    /\ cycle_count = 1
    /\ x = 2
    /\ Bus_read(ram, 765) = 255 /\ Bus_read(ram, 766) = 255
    /\ addr_abs = 1
    /\ cycles = 4

(***************************************************************************)
(* C16: Zero and Negative.                                                 *)
(***************************************************************************)
\* the opcodes the table names after one of the given operations
OpcodesNamed(names) ==
    {op \in 0..255 : /\ Instruction(op).name \in names
                     /\ Instruction(op).operate = Instruction(op).name}

\* the operations documented as updating Zero and Negative, by destination
IntoA == {"LDA", "AND", "ORA", "EOR", "ADC", "SBC", "PLA", "TXA"}
IntoX == {"LDX", "TAX", "TSX", "INX", "DEX"}
IntoY == {"LDY", "TAY", "INY", "DEY"}
Shifts == {"ASL", "LSR", "ROL", "ROR"}
IntoMemory == {"INC", "DEC"}

\* the addressing modes the flag checks run each operation in
FlagModes == {"IMP", "IMM", "ZP0", "ABS"}

\* Loads, logic, arithmetic, shifts, INC and DEC over operand bytes $11,
\* $FF, $80, $01 and $00 (immediate or read from page zero) and several
\* accumulators; the register operations over several A, X and Y; PLA over
\* several stack bytes.
InitFlags ==
    \/ InitWith({764},
                OpcodesNamed({"LDA", "AND", "ORA", "EOR", "ADC", "SBC"}
                             \cup Shifts \cup IntoMemory) \cap OpcodesOf(FlagModes),
                {0, 2, 3, 4, 5, 128}, {0}, {0, 1, 128, 255}, {1}, {2},
                {253}, {32, 163})
    \/ InitWith({764}, OpcodesNamed({"LDX", "LDY"}) \cap OpcodesOf(FlagModes),
                {0, 2, 3, 4, 5, 128}, {0}, {0}, {1}, {2}, {253}, {32, 163})
    \/ InitWith({764},
                OpcodesNamed({"TAX", "TAY", "TSX", "TXA",
                              "INX", "INY", "DEX", "DEY"}),
                {5}, {0}, {0, 5, 128}, {0, 1, 127, 255}, {0, 1, 127, 255},
                {253, 0}, {32, 163})
    \/ InitWith({764}, OpcodesNamed({"PLA"}), {5}, {0}, {0, 128}, {1}, {2},
                {0, 2, 253, 254}, {32, 163})

SpecFlags == InitFlags /\ [][NextClock]_vars

\* the byte in the documented destination of the next instruction once it
\* has executed: a register, or memory at the effective address its
\* resolver produces
ResultByte ==
    LET ins == Instruction(NextOpcode)
        ea  == resolved(State).addr_abs
    IN  CASE ins.operate \in IntoA -> a'
          [] ins.operate \in IntoX -> x'
          [] ins.operate \in IntoY -> y'
          [] ins.operate \in Shifts ->
                IF ins.addrmode = "IMP" THEN a' ELSE Bus_read(ram', ea)
          [] ins.operate \in IntoMemory -> Bus_read(ram', ea)

\* C16: after every operation documented as updating Zero and Negative,
\* Zero is set exactly when the result byte in its destination is 0 and
\* Negative exactly when bit 7 of that byte is set.
C16_ZeroNegative ==
    [][(/\ FetchStep
        /\ NextOpcode \in OpcodesNamed(IntoA \cup IntoX \cup IntoY
                                       \cup Shifts \cup IntoMemory)) =>
          /\ Flag(status', Z) = 1 <=> ResultByte = 0
          /\ Flag(status', N) = 1 <=> ResultByte >= 128]_vars

(***************************************************************************)
(* C17: undefined opcodes.                                                 *)
(***************************************************************************)
\* the status byte without its Unused bit
WithoutUnused(st) == BitAnd(st, 255 - U)

\* C17: an opcode whose table entry is named "???" takes its tabulated
\* number of cycles and leaves A, X, Y, SP, every memory byte and every flag
\* but Unused as they were.
C17_UndefinedNoOp ==
    [][(FetchStep /\ Instruction(NextOpcode).name = "???") =>
          /\ cycles' = Instruction(NextOpcode).cycles - 1
          /\ UNCHANGED <<a, x, y, sp, ram>>
          /\ WithoutUnused(status') = WithoutUnused(status)]_vars

(***************************************************************************)
(* C18: no Bus.                                                            *)
(***************************************************************************)
\* The core as constructed: every field at its initialiser and no Bus, so
\* no memory either.
InitConstructed ==
    /\ a = 0
    /\ x = 0
    /\ y = 0
    /\ sp = 0
    /\ pc = 0
    /\ status = 0
    /\ addr_abs = 0
    /\ addr_rel = 0
    /\ opcode = 0
    /\ cycles = 0
    /\ cycle_count = 0
    /\ ram = <<>>
    /\ bus = FALSE
    /\ calls = 0

SpecNoBus == InitConstructed /\ [][Next]_vars

\* C18: with no Bus connected no memory is accessed, reset(), irq() and
\* nmi() do not load PC from the value read() left unspecified, and clock()
\* loads no register from it.
C18_MissingBus ==
    [][~bus =>
          /\ ram' = ram
          /\ (Reset \/ Irq \/ Nmi) => pc' = pc
          /\ ClockStep => UNCHANGED <<a, x, y, sp>>]_vars

(***************************************************************************)
(* C19: ticks inside an instruction.                                       *)
(***************************************************************************)
\* C19: clock() called with cycles pending takes one off cycles, adds one
\* to cycle_count and leaves A, X, Y, SP, PC, status, the opcode and memory
\* as they were; every clock() call adds exactly one to cycle_count, and
\* reset(), irq() and nmi() leave it alone.
C19_BoundaryTick ==
    [][/\ (Clock /\ cycles > 0) =>
            /\ cycles' = cycles - 1
            /\ cycle_count' = cycle_count + 1
            /\ UNCHANGED <<a, x, y, sp, pc, status, opcode, ram>>
       /\ Clock => cycle_count' = cycle_count + 1
       /\ (Reset \/ Irq \/ Nmi) => cycle_count' = cycle_count]_vars

\* PHA fetched, nmi() taken, and two more ticks: three of the four calls
\* were clock(), and the two after the nmi() only counted down its 7 cycles
\* with PC still at the vector and PHA still the opcode.
C19_Witness ==
    /\ calls = 4
    /\ cycle_count = 3
    /\ cycles = 5
    /\ opcode = 72
    /\ pc = 784

(***************************************************************************)
(* C20: memory operands.                                                   *)
(***************************************************************************)
MemoryOperations == {"LDA", "LDX", "LDY", "STA", "STX", "STY", "INC", "DEC"}

\* Every load, store, INC and DEC opcode, in every addressing mode it has,
\* over a few operand bytes and registers.
InitMemory ==
    InitWith({764}, OpcodesNamed(MemoryOperations), {0, 2, 3, 4, 5, 254},
             {0, 3}, {0, 119}, {1, 255}, {2}, {253}, {32})

SpecMemory == InitMemory /\ [][NextClock]_vars

\* C20: a load sets its register to the byte at the effective address its
\* resolver produces (in immediate mode the byte after the opcode) and
\* writes no memory; a store writes its register there; INC and DEC write
\* (M + 1) mod 256 and (M - 1) mod 256 back there; and no other memory byte
\* changes.
C20_EffectiveAddress ==
    [][(FetchStep /\ NextOpcode \in OpcodesNamed(MemoryOperations)) =>
          LET ins == Instruction(NextOpcode)
              ea  == resolved(State).addr_abs
              M   == Bus_read(ram, ea)
          IN  /\ ins.addrmode = "IMM" => ea = (pc + 1) % 65536
              /\ ins.operate = "LDA" => (a' = M /\ ram' = ram)
              /\ ins.operate = "LDX" => (x' = M /\ ram' = ram)
              /\ ins.operate = "LDY" => (y' = M /\ ram' = ram)
              /\ ins.operate = "STA" => ram' = Bus_write(ram, ea, a)
              /\ ins.operate = "STX" => ram' = Bus_write(ram, ea, x)
              /\ ins.operate = "STY" => ram' = Bus_write(ram, ea, y)
              /\ ins.operate = "INC" => ram' = Bus_write(ram, ea, (M + 1) % 256)
              /\ ins.operate = "DEC" => ram' = Bus_write(ram, ea, (M - 1) % 256)]_vars

(***************************************************************************)
(* C21: shifts and rotates.                                                *)
(***************************************************************************)
\* C21: ASL, LSR, ROL and ROR in implicit mode put the shifted accumulator
\* in the accumulator and write no memory; in the memory modes they write
\* the shifted byte of the effective address back there and leave the
\* accumulator alone.  The result is the operand moved one bit left (ASL,
\* ROL) or right (LSR, ROR), ROL and ROR inserting the old Carry, and Carry
\* receives the bit moved out.
C21_Shifts ==
    [][(FetchStep /\ NextOpcode \in OpcodesNamed(Shifts)) =>
          LET ins     == Instruction(NextOpcode)
              ea      == resolved(State).addr_abs
              acc     == ins.addrmode = "IMP"
              operand == IF acc THEN a ELSE Bus_read(ram, ea)
              cin     == Flag(status, C)
              result  == CASE ins.operate = "ASL" -> (operand * 2) % 256
                           [] ins.operate = "LSR" -> operand \div 2
                           [] ins.operate = "ROL" -> (operand * 2 + cin) % 256
                           [] ins.operate = "ROR" -> (operand \div 2) + 128 * cin
              cout    == IF ins.operate \in {"ASL", "ROL"}
                         THEN operand \div 128
                         ELSE operand % 2
          IN  /\ acc => (a' = result /\ ram' = ram)
              /\ ~acc => (ram' = Bus_write(ram, ea, result) /\ a' = a)
              /\ Flag(status', C) = cout]_vars

(***************************************************************************)
(* C22: register transfers.                                                *)
(***************************************************************************)
Transfers == {"TAX", "TAY", "TXA", "TYA", "TSX", "TXS"}

\* The six transfers over several A, X, Y and SP, flags clear and set.
InitTransfer ==
    InitWith({764}, OpcodesNamed(Transfers), {5}, {0}, {0, 5, 128},
             {0, 1, 127, 255}, {0, 2, 128}, {253, 0}, {32, 163})

SpecTransfer == InitTransfer /\ [][NextClock]_vars

\* the status byte with Zero and Negative set from a byte, Unused set
WithZeroNegative(st, byte) ==
    BitOr(BitAnd(st, 255 - Z - N),
          U + (IF byte = 0 THEN Z ELSE 0) + (IF byte >= 128 THEN N ELSE 0))

\* C22: TAX, TAY, TXA, TYA, TSX and TXS copy the source register to the
\* destination register whatever memory holds; TAX, TAY, TXA and TSX set
\* Zero and Negative from the destination, TXS and TYA change no flag.
C22_Transfers ==
    [][(FetchStep /\ NextOpcode \in OpcodesNamed(Transfers)) =>
          LET op == Instruction(NextOpcode).operate
          IN  /\ op = "TAX" => (x' = a /\ status' = WithZeroNegative(status, a))
              /\ op = "TAY" => (y' = a /\ status' = WithZeroNegative(status, a))
              /\ op = "TXA" => (a' = x /\ status' = WithZeroNegative(status, x))
              /\ op = "TSX" => (x' = sp /\ status' = WithZeroNegative(status, sp))
              /\ op = "TYA" => (a' = y /\ status' = BitOr(status, U))
              /\ op = "TXS" => (sp' = x /\ status' = BitOr(status, U))]_vars

(***************************************************************************)
(* C23, C24, C25: indirect addressing.                                     *)
(***************************************************************************)
\* Every (zp,X) opcode over pointers at both ends of page zero, every
\* (zp),Y opcode over four pointers and several X and Y, and JMP (abs) over
\* every low byte of the pointer in pages $00, $01, $02 and $FF.
InitIndirect ==
    \/ InitWith({764}, OpcodesOf({"IZX"}), {0, 1, 2, 253, 254, 255}, {3},
                {119}, {0, 1, 2, 255}, {2}, {253}, {32})
    \/ InitWith({764}, OpcodesOf({"IZY"}), {0, 1, 2, 3}, {3},
                {119}, {0, 1}, {0, 1, 129, 255}, {253}, {32})
    \/ InitWith({764}, OpcodesOf({"IND"}), 0..255, {0, 1, 2, 255},
                {119}, {1}, {2}, {253}, {32})

SpecIndirect == InitIndirect /\ [][NextClock]_vars

\* the byte the bus holds at an address
Byte(address) == Bus_read(ram, address % 65536)

\* C23: (zp),Y reads the target T from zero-page location z, offset by
\* neither X nor Y, resolves to (T + Y) mod 65536 and reports 1 extra cycle
\* exactly when the high byte of T + Y differs from the high byte of T.
C23_IndirectY ==
    [][(FetchStep /\ Instruction(NextOpcode).addrmode = "IZY") =>
          LET z == Operand1
              T == Byte(z) + 256 * Byte((z + 1) % 256)
              target == (T + y) % 65536
          IN  /\ resolved(State).addr_abs = target
              /\ resolved(State).ret =
                    (IF Page(target) # Page(T) THEN 1 ELSE 0)]_vars

\* C24: (zp,X) wraps the pointer z + X to page zero: the low target byte
\* comes from (z + X) mod 256, and the high target byte from the byte after
\* it, never from an address above $00FF because z + X exceeded $FF.
C24_IndirectX ==
    [][(FetchStep /\ Instruction(NextOpcode).addrmode = "IZX") =>
          LET p == (Operand1 + x) % 256
              target == resolved(State).addr_abs
          IN  /\ target % 256 = Byte(p)
              /\ p < 255 => target \div 256 = Byte(p + 1)]_vars

C26_PushStatus ==
    [][(FetchStep /\ NextOpcode = 8) =>
          /\ ram' = Bus_write(ram, STACK_OFFSET + sp, BitOr(status, B + U))
          /\ sp' = (sp - 1) % 256
          /\ status' = BitOr(status, U)]_vars

(***************************************************************************)
(* C27: irq() or nmi(), then RTI.                                          *)
(***************************************************************************)
\* NOPs at $02FC and RTI at both interrupt handlers, $0330 and $0310.  No
\* NOP and no RTI writes A or X: A starts as a copy of the status and X as
\* a copy of the stack pointer.
ReturnImage ==
    Load(Load(Load(Background, 764, <<234, 234, 234, 234>>),
              816, <<64>>), 784, <<64>>)

InitReturn ==
    \E vsp \in {253, 1, 0}, vst \in {32, 0, 36, 107, 195, 255} :
        InitProgram(764, ReturnImage, vst, vsp, 0, vsp, vst)

NextReturn == Irq \/ Nmi \/ Tick

SpecReturn == InitReturn /\ [][NextReturn]_vars

\* The first call was an interrupt that was taken at $02FC, the seven
\* cycles it left pending were ticked away, and the eighth tick has
\* executed the RTI of the handler.
RtiReturned == calls = 9 /\ cycle_count = 8 /\ opcode = 64

\* C27: after an irq() or nmi() that was taken and the RTI of its handler,
\* with nothing else touching the stack between them, PC and the stack
\* pointer hold the values they had before the interrupt, and so do Carry,
\* Zero, InterruptDisable, Decimal, Overflow and Negative.
C27_InterruptReturn ==
    RtiReturned =>
        /\ pc = 764
        /\ sp = x
        /\ BitAnd(status, C + Z + I + D + V + N) =
           BitAnd(a, C + Z + I + D + V + N)

(***************************************************************************)
(* C28: the stack stays in page one.                                       *)
(***************************************************************************)
\* Every instruction that pushes or pulls, at the stack pointers next to
\* both ends of the page, on the machine with its four entry points.
InitStackPage ==
    InitWith({764}, {72, 8, 104, 40, 32, 96, 64}, {64}, {3},
             {90}, {1}, {2}, {0, 1, 2, 253, 254, 255}, {32, 36})

SpecStackPage == InitStackPage /\ [][Next]_vars

\* where the push after k earlier pushes goes, and where the k-th pull
\* comes from: page one, the offset wrapped to eight bits
Pushed(k) == STACK_OFFSET + ((sp - k) % 256)
Pulled(k) == STACK_OFFSET + ((sp + k) % 256)

\* C28: PHA, PHP, JSR, irq() and nmi() change memory only at
\* $0100 + ((S - k) mod 256) for the k-th byte they push; PLA, PLP, RTS
\* and RTI change no memory and load what they pull from
\* $0100 + ((S + k) mod 256); each leaves the stack pointer moved by the
\* number of bytes, modulo 256, so a push at S = $00 leaves $FF and a pull
\* at S = $FF leaves $00.
C28_StackPage ==
    [][/\ (FetchStep /\ NextOpcode = 72) =>
            /\ ram' = Bus_write(ram, Pushed(0), a)
            /\ sp' = (sp - 1) % 256
       /\ (FetchStep /\ NextOpcode = 8) =>
            /\ ram' = Bus_write(ram, Pushed(0), BitOr(status, B + U))
            /\ sp' = (sp - 1) % 256
       /\ (FetchStep /\ NextOpcode = 32) =>
            /\ ram' = Bus_write(Bus_write(ram,
                          Pushed(0), ((pc + 2) % 65536) \div 256),
                          Pushed(1), (pc + 2) % 256)
            /\ sp' = (sp - 2) % 256
       /\ ((Irq /\ Flag(status, I) = 0) \/ Nmi) =>
            /\ ram' = Bus_write(Bus_write(Bus_write(ram,
                          Pushed(0), pc \div 256),
                          Pushed(1), pc % 256),
                          Pushed(2), StackedStatus)
            /\ sp' = (sp - 3) % 256
       /\ (FetchStep /\ NextOpcode = 104) =>
            /\ ram' = ram
            /\ a' = Byte(Pulled(1))
            /\ sp' = (sp + 1) % 256
       /\ (FetchStep /\ NextOpcode = 40) =>
            /\ ram' = ram
            /\ status' = BitOr(Byte(Pulled(1)), U)
            /\ sp' = (sp + 1) % 256
       /\ (FetchStep /\ NextOpcode = 96) =>
            /\ ram' = ram
            /\ pc' = (Byte(Pulled(1)) + 256 * Byte(Pulled(2)) + 1) % 65536
            /\ sp' = (sp + 2) % 256
       /\ (FetchStep /\ NextOpcode = 64) =>
            /\ ram' = ram
            /\ status' = BitOr(BitAnd(Byte(Pulled(1)), 255 - B), U)
            /\ pc' = Byte(Pulled(2)) + 256 * Byte(Pulled(3))
            /\ sp' = (sp + 3) % 256]_vars

\* PLP at S = $FF: the status came from $0100, which holds $AA, and the
\* stack pointer is $00.
C28_Witness ==
    /\ opcode = 40
    /\ cycle_count = 1
    /\ calls = 1
    /\ Bus_read(ram, 256) = 170
    /\ status = 170
    /\ sp = 0

(***************************************************************************)
(* C29: the Unused bit between calls.                                      *)
(***************************************************************************)
\* PHP, PLP or RTI at the reset handler $0320, above the NOPs at $02FC and
\* the RTIs of the interrupt handlers; the status starts with Unused clear,
\* as the constructor leaves it.
InitUnused ==
    \E op \in {8, 40, 64}, vst \in {0, 223} :
        InitProgram(764, Load(ReturnImage, 800, <<op>>),
                    90, 1, 2, 253, vst)

NextHost == Reset \/ Irq \/ Nmi \/ Tick

SpecUnused == InitUnused /\ [][NextHost]_vars

\* C29: reset() returns with Unused set, and every call of clock(), irq(),
\* nmi() or reset() that starts with Unused set returns with Unused set,
\* whatever instruction it executes.
C29_UnusedSet ==
    [][(Reset \/ Flag(status, U) = 1) => Flag(status', U) = 1]_vars

\* reset(), eight ticks, and then the PLP at $0320 has pulled $00 from
\* $01FD: Unused is the only flag set.
C29_Witness ==
    /\ opcode = 40
    /\ pc = 801
    /\ calls = 10
    /\ cycle_count = 9
    /\ sp = 253
    /\ status = U

(***************************************************************************)
(* C30: the remaining-cycles counter.                                      *)
(***************************************************************************)
\* Every one of the 256 opcodes, with an operand that crosses a page when
\* indexed, on the machine with its four entry points.
InitCycles ==
    InitWith({764}, 0..255, {255}, {3}, {128}, {1}, {2}, {253}, {32})

SpecCycles == InitCycles /\ [][Next]_vars

\* C30: cycles stays within 0..8: every clock() that finds it 0 loads a
\* cost of at least 1 before it takes 1 from it and leaves at most 7, and
\* every clock() that finds it positive takes 1 from it.
C30_CyclesBounded ==
    /\ [](cycles \in 0..8)
    /\ [][ClockStep =>
            /\ cycles # 0 => cycles' = cycles - 1
            /\ cycles = 0 =>
                 /\ Instruction(NextOpcode).cycles >= 1
                 /\ cycles' >= Instruction(NextOpcode).cycles - 1
                 /\ cycles' <= 7]_vars

\* NOP has run to completion in two ticks and the third tick, finding
\* cycles at 0, has fetched the undefined opcode $FF and left 6 of its 7
\* cycles pending.
C30_Witness ==
    /\ Bus_read(ram, 764) = 234
    /\ opcode = 255
    /\ pc = 766
    /\ calls = 3
    /\ cycle_count = 3
    /\ cycles = 6

====
